---- MODULE Spec2Model ----
(***************************************************************************)
(* Model of the two opinion-sdo programs of cti-stix-contrib:              *)
(*   judge_intel.py  (use case 3.3.1, adding an opinion)   -> Spec         *)
(*   read_intel.py   (use case 3.3.2, reading an opinion)  -> SpecRead     *)
(* Text is modelled as sequences of one-character strings so that          *)
(* replace/title/splitlines/join are computed, not assumed.                *)
(***************************************************************************)
EXTENDS Integers, Sequences, FiniteSets, TLC

VARIABLES
    loaded,             \* bundle.objects as parsed at start-up (judge_intel.py:241)
    bundle,             \* bundle.objects, the in-memory list (judge_intel.py:26)
    identity,           \* IndicatorEvaluationApplication.identity (judge_intel.py:28)
    activeForm,         \* id of the form the application manager shows ("" when none)
    pc,                 \* "running" | "cancelled" | "saved" | "crashed"
    error,              \* the uncaught exception when pc = "crashed", else ""
    identityValues,     \* IdentitySelection values (judge_intel.py:68)
    providedIndicators, \* IndicatorSelectionForm._provided_indicators
    cursorLine,         \* row of IndicatorSelection the last action was pressed on (0: none yet)
    evalIndicator,      \* IndicatorEvaluationForm.indicator / IndicatorViewerForm.indicator
    nameText,           \* IdentityEntryForm.name.value
    emailText,          \* IdentityEntryForm.email.value
    opinionSel,         \* OpinionSelectOne selection: 0 = nothing selected, else index
    explanationText,    \* IndicatorEvaluationForm.explanation.value
    outputGiven,        \* TRUE iff -o/--output was passed (judge_intel.py:238)
    outContent,         \* content of the output target
    truncates,          \* number of output.truncate() calls that took effect
    writes,             \* number of output.write() calls that took effect
    nextId,             \* next fresh identifier the object library hands out
    opinions,           \* local `opinions` of IndicatorViewerForm.set_indicator
    buffer,             \* lines held by the TitleBufferPager (read_intel.py:116)
    bufferName          \* self.buffer.name (read_intel.py:85)

vars == <<loaded, bundle, identity, activeForm, pc, error, identityValues,
          providedIndicators, cursorLine, evalIndicator, nameText, emailText, opinionSel,
          explanationText, outputGiven, outContent, truncates, writes, nextId,
          opinions, buffer, bufferName>>

authorVars == <<identity, identityValues, nameText, emailText, opinionSel,
                explanationText, outputGiven, outContent, truncates, writes, nextId>>

readVars == <<opinions, buffer, bufferName>>

(***************************************************************************)
(* Bounds of the model.                                                    *)
(***************************************************************************)
MaxLoaded == 2      \* objects in the bundle loaded by judge_intel
MaxAppends == 3     \* objects judge_intel may append before the model stops it
MaxStore == 5       \* objects in the bundle loaded by read_intel
MaxTime == 2        \* distinct creation timestamps of loaded opinions

(***************************************************************************)
(* Text helpers (Python str semantics on character sequences).             *)
(***************************************************************************)
Lower == <<"a","b","c","d","e","f","g","h","i","j","k","l","m",
           "n","o","p","q","r","s","t","u","v","w","x","y","z">>
Upper == <<"A","B","C","D","E","F","G","H","I","J","K","L","M",
           "N","O","P","Q","R","S","T","U","V","W","X","Y","Z">>

IsLower(c) == \E k \in DOMAIN Lower : Lower[k] = c
IsUpper(c) == \E k \in DOMAIN Upper : Upper[k] = c
IsCased(c) == IsLower(c) \/ IsUpper(c)
ToUpper(c) == IF IsLower(c) THEN Upper[CHOOSE k \in DOMAIN Lower : Lower[k] = c] ELSE c
ToLower(c) == IF IsUpper(c) THEN Lower[CHOOSE k \in DOMAIN Upper : Upper[k] = c] ELSE c

\* str.replace(a, b) for single characters
Replace(s, a, b) == [k \in DOMAIN s |-> IF s[k] = a THEN b ELSE s[k]]

\* str.title(): a cased character is upper-cased after an uncased one (or at
\* the start) and lower-cased after a cased one
Title(s) ==
    [k \in DOMAIN s |->
        IF k = 1 \/ ~IsCased(s[k - 1]) THEN ToUpper(s[k]) ELSE ToLower(s[k])]

(***************************************************************************)
(* Objects of a bundle.  Absent optional properties are "" / <<>> / 0.     *)
(***************************************************************************)
Obj(t, i, n, c, ci, refs, op, ex, cr, by) ==
    [type |-> t, id |-> i, name |-> n, identity_class |-> c,
     contact_information |-> ci, object_refs |-> refs, opinion |-> op,
     explanation |-> ex, created |-> cr, created_by_ref |-> by]

None == Obj("none", 0, <<>>, <<>>, <<>>, <<>>, <<>>, <<>>, 0, 0)

S_individual == <<"i","n","d","i","v","i","d","u","a","l">>
S_organization == <<"o","r","g","a","n","i","z","a","t","i","o","n">>

Identity(i, n, ci) == Obj("identity", i, n, S_individual, ci, <<>>, <<>>, <<>>, 0, 0)
Indicator(i, n) == Obj("indicator", i, n, <<>>, <<>>, <<>>, <<>>, <<>>, 0, 0)
Opinion(i, refs, op, ex, cr, by) ==
    Obj("opinion", i, <<>>, <<>>, <<>>, refs, op, ex, cr, by)

\* values of stix2.Opinion._properties['opinion'].allowed
OpinionAllowed ==
    << <<"s","t","r","o","n","g","l","y","-","d","i","s","a","g","r","e","e">>,
       <<"d","i","s","a","g","r","e","e">>,
       <<"n","e","u","t","r","a","l">>,
       <<"a","g","r","e","e">>,
       <<"s","t","r","o","n","g","l","y","-","a","g","r","e","e">> >>

\* OpinionSelectOne.display_value
display_value(option) == Title(Replace(option, "-", " "))

IsIdentity(o) == o.type = "identity"
IsIndicator(o) == o.type = "indicator"
IsOpinion(o) == o.type = "opinion"

Range(s) == {s[k] : k \in DOMAIN s}
Ids(s) == {s[k].id : k \in DOMAIN s}

(***************************************************************************)
(* judge_intel.py                                                          *)
(***************************************************************************)
\* what the user may type: (name, email) pairs and explanations
IdentityEntries == {<< <<>>, <<>> >>, << <<"a","l">>, <<"a","@","b">> >>}
Explanations == {<<>>, <<" ","o","k","\n">>}
Types == {"identity", "indicator", "opinion"}

ObjName(i) == <<"n">> \o (IF i % 2 = 0 THEN <<"x">> ELSE <<"y">>)

\* an already-parsed object of the input file, identifier = its position
LoadedObj(t, i) ==
    IF t = "identity" THEN Identity(i, ObjName(i), <<>>)
    ELSE IF t = "indicator" THEN Indicator(i, ObjName(i))
    ELSE Opinion(i, <<1>>, OpinionAllowed[4], <<"o","k">>, 1, 0)

LoadedBundles ==
    UNION {{[k \in 1..n |-> LoadedObj(ts[k], k)] : ts \in [1..n -> Types]}
           : n \in 0..MaxLoaded}

\* bundle.serialize(pretty=True): the objects in order, each as the list of
\* its present properties
SerializeObj(o) ==
    LET all == << <<"type", "req", o.type>>, <<"id", "req", o.id>>,
                  <<"name", "text", o.name>>,
                  <<"identity_class", "text", o.identity_class>>,
                  <<"contact_information", "text", o.contact_information>>,
                  <<"object_refs", "text", o.object_refs>>,
                  <<"opinion", "text", o.opinion>>,
                  <<"explanation", "text", o.explanation>>,
                  <<"created", "num", o.created>>,
                  <<"created_by_ref", "num", o.created_by_ref>> >>
        Present(p) == IF p[2] = "req" THEN TRUE
                      ELSE IF p[2] = "num" THEN p[3] # 0
                      ELSE p[3] # <<>>
    IN  SelectSeq(all, Present)
serialize(b) == [k \in DOMAIN b |-> SerializeObj(b[k])]

PriorOutput == << <<"prior content">> >>

\* forms registered by IndicatorEvaluationApplication.onStart
Forms == {"MAIN", "NEW_IDENTITY", "INDICATORS", "EVALUATION"}

\* NPSAppManaged.switchForm: the next form is looked up among the registered
\* ones; an unregistered id raises KeyError in the application loop
switchForm(fmid) ==
    IF fmid \in Forms
    THEN activeForm' = fmid /\ pc' = pc /\ error' = error
    ELSE activeForm' = "" /\ pc' = "crashed" /\ error' = "KeyError"

Raise(e) == activeForm' = "" /\ pc' = "crashed" /\ error' = e

\* IndicatorEvaluationApplication.set_identity
set_identity(ident) ==
    /\ bundle' = Append(bundle, ident)
    /\ identity' = ident

\* IndicatorEvaluationApplication.on_identity_selected
on_identity_selected(ident) ==
    /\ set_identity(ident)
    /\ switchForm("INDICATORS")

\* faulty variant: the content is written after what the target already holds
save_bundle_append(b, stage) ==
    /\ truncates' = IF stage = "truncate" THEN truncates ELSE truncates + 1
    /\ writes' = IF stage = "none" THEN writes + 1 ELSE writes
    /\ outContent' = IF stage = "none" THEN outContent \o serialize(b) ELSE outContent

\* save_bundle inside handle_save: serialize, truncate, write.  stage is the
\* step at which the output fails ("none": it does not)
save_bundle(b, stage) ==
    /\ truncates' = IF stage = "truncate" THEN truncates ELSE truncates + 1
    /\ writes' = IF stage = "none" THEN writes + 1 ELSE writes
    /\ outContent' = IF stage = "truncate" THEN outContent
                     ELSE IF stage = "write" THEN <<>>
                     ELSE serialize(b)

CanAppend == Len(bundle) < Len(loaded) + MaxAppends

Init ==
    /\ loaded \in LoadedBundles
    /\ bundle = loaded
    /\ identity = None
    /\ activeForm = "MAIN"
    /\ pc = "running"
    /\ error = ""
    /\ identityValues = <<None>> \o SelectSeq(loaded, IsIdentity)
    /\ providedIndicators = SelectSeq(loaded, IsIndicator)
    /\ cursorLine = 0
    /\ evalIndicator = None
    /\ nameText = <<>>
    /\ emailText = <<>>
    /\ opinionSel = 0
    /\ explanationText = <<>>
    /\ outputGiven \in BOOLEAN
    /\ outContent = IF outputGiven THEN PriorOutput ELSE serialize(loaded)
    /\ truncates = 0
    /\ writes = 0
    /\ nextId = Len(loaded) + 1
    /\ opinions = <<>>
    /\ buffer = <<>>
    /\ bufferName = <<>>

\* faulty variant: the cancel handler saves the bundle before exiting
IdentitySelectionForm_on_cancel_saves ==
    /\ pc = "running" /\ activeForm = "MAIN"
    /\ pc' = "cancelled" /\ activeForm' = "" /\ error' = error
    /\ save_bundle(bundle, "none")
    /\ UNCHANGED <<loaded, bundle, providedIndicators, cursorLine, evalIndicator,
                   identity, identityValues, nameText, emailText, opinionSel,
                   explanationText, outputGiven, nextId>>
    /\ UNCHANGED readVars

\* IdentitySelectionForm.on_cancel
IdentitySelectionForm_on_cancel ==
    /\ pc = "running" /\ activeForm = "MAIN"
    /\ pc' = "cancelled" /\ activeForm' = "" /\ error' = error
    /\ UNCHANGED <<loaded, bundle, providedIndicators, cursorLine, evalIndicator>>
    /\ UNCHANGED authorVars
    /\ UNCHANGED readVars

\* IdentitySelection.get_identity on the rows the user has ticked (a set of
\* indices into identityValues); more than one ticked row fails the
\* one-element unpacking
get_identity(sel) ==
    IF sel = {} THEN None ELSE identityValues[CHOOSE k \in sel : TRUE]

\* IdentitySelection.actionHighlighted
IdentitySelection_actionHighlighted ==
    /\ pc = "running" /\ activeForm = "MAIN"
    /\ \E sel \in SUBSET DOMAIN identityValues :
        /\ Cardinality(sel) <= 2
        /\ IF Cardinality(sel) > 1
           THEN /\ Raise("ValueError")
                /\ UNCHANGED <<bundle, identity>>
           ELSE IF get_identity(sel) = None
           THEN /\ switchForm("NEW_IDENTITY")
                /\ UNCHANGED <<bundle, identity>>
           ELSE /\ CanAppend
                /\ on_identity_selected(get_identity(sel))
    /\ UNCHANGED <<loaded, identityValues, providedIndicators, cursorLine, evalIndicator,
                   nameText, emailText, opinionSel, explanationText, outputGiven,
                   outContent, truncates, writes, nextId>>
    /\ UNCHANGED readVars

\* the user typing into the two TitleText fields of IdentityEntryForm
IdentityEntryForm_edit ==
    /\ pc = "running" /\ activeForm = "NEW_IDENTITY"
    /\ \E ne \in IdentityEntries :
        /\ ne # <<nameText, emailText>>
        /\ nameText' = ne[1] /\ emailText' = ne[2]
    /\ UNCHANGED <<loaded, bundle, identity, activeForm, pc, error, identityValues,
                   providedIndicators, cursorLine, evalIndicator, opinionSel, explanationText,
                   outputGiven, outContent, truncates, writes, nextId>>
    /\ UNCHANGED readVars

\* IdentityEntryForm.on_cancel
IdentityEntryForm_on_cancel ==
    /\ pc = "running" /\ activeForm = "NEW_IDENTITY"
    /\ switchForm("IDENTITIES")
    /\ UNCHANGED <<loaded, bundle, providedIndicators, cursorLine, evalIndicator>>
    /\ UNCHANGED authorVars
    /\ UNCHANGED readVars

\* IdentityEntryForm.on_ok
IdentityEntryForm_on_ok ==
    /\ pc = "running" /\ activeForm = "NEW_IDENTITY"
    /\ CanAppend
    /\ on_identity_selected(Identity(nextId, nameText, emailText))
    /\ nextId' = nextId + 1
    /\ UNCHANGED <<loaded, identityValues, providedIndicators, cursorLine, evalIndicator,
                   nameText, emailText, opinionSel, explanationText, outputGiven,
                   outContent, truncates, writes>>
    /\ UNCHANGED readVars

\* IndicatorSelectionForm.on_cancel
IndicatorSelectionForm_on_cancel ==
    /\ pc = "running" /\ activeForm = "INDICATORS"
    /\ switchForm("IDENTITIES")
    /\ UNCHANGED <<loaded, bundle, providedIndicators, cursorLine, evalIndicator>>
    /\ UNCHANGED authorVars
    /\ UNCHANGED readVars

\* IndicatorEvaluationForm.set_indicator
Evaluation_set_indicator(indicator) ==
    evalIndicator' = IF indicator # None THEN indicator ELSE evalIndicator

\* IndicatorSelection.actionHighlighted (judge_intel.py)
IndicatorSelection_actionHighlighted ==
    /\ pc = "running" /\ activeForm = "INDICATORS"
    /\ \E k \in DOMAIN providedIndicators :
        /\ cursorLine' = k
        /\ Evaluation_set_indicator(providedIndicators[k])
    /\ switchForm("EVALUATION")
    /\ UNCHANGED <<loaded, bundle, providedIndicators>>
    /\ UNCHANGED authorVars
    /\ UNCHANGED readVars

\* the user choosing an opinion value and typing an explanation
IndicatorEvaluationForm_edit ==
    /\ pc = "running" /\ activeForm = "EVALUATION"
    /\ \E o \in DOMAIN OpinionAllowed, e \in Explanations :
        /\ <<o, e>> # <<opinionSel, explanationText>>
        /\ opinionSel' = o /\ explanationText' = e
    /\ UNCHANGED <<loaded, bundle, identity, activeForm, pc, error, identityValues,
                   providedIndicators, cursorLine, evalIndicator, nameText, emailText,
                   outputGiven, outContent, truncates, writes, nextId>>
    /\ UNCHANGED readVars

\* the clock when the Opinion is built: later than every loaded timestamp
Now == MaxTime + 1

\* faulty variant: the title-cased display form is stored instead of the value
NewOpinion_display(now) ==
    Opinion(nextId, <<evalIndicator.id>>, display_value(OpinionAllowed[opinionSel]),
            explanationText, now, 0)

\* the Opinion built by IndicatorEvaluationForm.on_ok: a reference property
\* given an object keeps the object's id
NewOpinion(now) ==
    Opinion(nextId, <<evalIndicator.id>>, OpinionAllowed[opinionSel],
            explanationText, now, 0)

\* faulty variant: on_ok returns to the form instead of exiting after the save
IndicatorEvaluationForm_on_ok_noexit ==
    /\ pc = "running" /\ activeForm = "EVALUATION"
    /\ IF opinionSel = 0
       THEN /\ Raise("TypeError")
            /\ UNCHANGED <<bundle, outContent, truncates, writes, nextId>>
       ELSE \E stage \in {"none", "truncate", "write"} :
            /\ bundle' = Append(bundle, NewOpinion(Now))
            /\ nextId' = nextId + 1
            /\ save_bundle(bundle', stage)
            /\ IF stage = "none"
               THEN pc' = pc /\ activeForm' = activeForm /\ error' = error
               ELSE Raise("OSError")
    /\ UNCHANGED <<loaded, identity, identityValues, providedIndicators,
                   cursorLine, evalIndicator, nameText, emailText, opinionSel, explanationText,
                   outputGiven>>
    /\ UNCHANGED readVars

\* faulty variant: the append is undone when the save fails
IndicatorEvaluationForm_on_ok_rollback ==
    /\ pc = "running" /\ activeForm = "EVALUATION"
    /\ IF opinionSel = 0
       THEN /\ Raise("TypeError")
            /\ UNCHANGED <<bundle, outContent, truncates, writes, nextId>>
       ELSE \E stage \in {"none", "truncate", "write"} :
            /\ bundle' = IF stage = "none" THEN Append(bundle, NewOpinion(Now)) ELSE bundle
            /\ nextId' = nextId + 1
            /\ save_bundle(Append(bundle, NewOpinion(Now)), stage)
            /\ IF stage = "none"
               THEN pc' = "saved" /\ activeForm' = "" /\ error' = error
               ELSE Raise("OSError")
    /\ UNCHANGED <<loaded, identity, identityValues, providedIndicators,
                   cursorLine, evalIndicator, nameText, emailText, opinionSel, explanationText,
                   outputGiven>>
    /\ UNCHANGED readVars

\* faulty variant: the missing opinion value is noticed only after the append
IndicatorEvaluationForm_on_ok_latecheck ==
    /\ pc = "running" /\ activeForm = "EVALUATION"
    /\ IF opinionSel = 0
       THEN /\ Raise("TypeError")
            /\ bundle' = Append(bundle, Opinion(nextId, <<evalIndicator.id>>, <<>>,
                                                explanationText, Now, 0))
            /\ UNCHANGED <<outContent, truncates, writes, nextId>>
       ELSE \E stage \in {"none", "truncate", "write"} :
            /\ bundle' = Append(bundle, NewOpinion(Now))
            /\ nextId' = nextId + 1
            /\ save_bundle(bundle', stage)
            /\ IF stage = "none"
               THEN pc' = "saved" /\ activeForm' = "" /\ error' = error
               ELSE Raise("OSError")
    /\ UNCHANGED <<loaded, identity, identityValues, providedIndicators,
                   cursorLine, evalIndicator, nameText, emailText, opinionSel, explanationText,
                   outputGiven>>
    /\ UNCHANGED readVars

\* IndicatorEvaluationForm.on_ok
IndicatorEvaluationForm_on_ok ==
    /\ pc = "running" /\ activeForm = "EVALUATION"
    /\ IF opinionSel = 0
       THEN /\ Raise("TypeError")
            /\ UNCHANGED <<bundle, outContent, truncates, writes, nextId>>
       ELSE \E stage \in {"none", "truncate", "write"} :
            /\ bundle' = Append(bundle, NewOpinion(Now))
            /\ nextId' = nextId + 1
            /\ save_bundle(bundle', stage)
            /\ IF stage = "none"
               THEN pc' = "saved" /\ activeForm' = "" /\ error' = error
               ELSE Raise("OSError")
    /\ UNCHANGED <<loaded, identity, identityValues, providedIndicators,
                   cursorLine, evalIndicator, nameText, emailText, opinionSel, explanationText,
                   outputGiven>>
    /\ UNCHANGED readVars

\* faulty variant: cancel also drops what the run had appended
IndicatorEvaluationForm_on_cancel_discard ==
    /\ pc = "running" /\ activeForm = "EVALUATION"
    /\ switchForm("MAIN")
    /\ bundle' = loaded
    /\ UNCHANGED <<loaded, providedIndicators, cursorLine, evalIndicator>>
    /\ UNCHANGED authorVars
    /\ UNCHANGED readVars

\* IndicatorEvaluationForm.on_cancel
IndicatorEvaluationForm_on_cancel ==
    /\ pc = "running" /\ activeForm = "EVALUATION"
    /\ switchForm("MAIN")
    /\ UNCHANGED <<loaded, bundle, providedIndicators, cursorLine, evalIndicator>>
    /\ UNCHANGED authorVars
    /\ UNCHANGED readVars

Next ==
    \/ IdentitySelectionForm_on_cancel
    \/ IdentitySelection_actionHighlighted
    \/ IdentityEntryForm_edit
    \/ IdentityEntryForm_on_cancel
    \/ IdentityEntryForm_on_ok
    \/ IndicatorSelectionForm_on_cancel
    \/ IndicatorSelection_actionHighlighted
    \/ IndicatorEvaluationForm_edit
    \/ IndicatorEvaluationForm_on_ok
    \/ IndicatorEvaluationForm_on_cancel

Spec == Init /\ [][Next]_vars

(***************************************************************************)
(* read_intel.py                                                           *)
(***************************************************************************)
\* forms registered by IndicatorEvaluationReaderApplication.onStart
ReaderForms == {"MAIN", "INDICATOR"}

Reader_switchForm(fmid) ==
    IF fmid \in ReaderForms
    THEN activeForm' = fmid /\ pc' = pc /\ error' = error
    ELSE activeForm' = "" /\ pc' = "crashed" /\ error' = "KeyError"

\* an identifier no object of an n-object bundle has
AbsentId(n) == n + 1

Indices(ts, t) == {k \in DOMAIN ts : ts[k] = t}

\* object_refs an opinion of the input may carry: one indicator, the first
\* two indicators, or (the property is required) an object outside the bundle
RefChoices(ts) ==
    LET inds == Indices(ts, "indicator")
        lo == CHOOSE k \in inds : \A m \in inds : k <= m
        hi == CHOOSE k \in inds : \A m \in inds : k >= m
    IN  IF inds = {} THEN {<<AbsentId(Len(ts))>>}
        ELSE {<<k>> : k \in inds} \cup (IF lo # hi THEN {<<hi, lo>>} ELSE {})

\* created_by_ref an opinion of the input may carry: none (0), an identity of
\* the bundle, or an identity that is not in the bundle
CreatorChoices(ts) == {0, AbsentId(Len(ts))} \cup Indices(ts, "identity")

ExplanationOf(i) ==
    IF i % 4 = 0 THEN <<"a","\n","b">>
    ELSE IF i % 4 = 1 THEN <<"a">>
    ELSE IF i % 4 = 2 THEN <<"a","\n","\n","b","\n">>
    ELSE <<>>

ClassOf(i) == IF i % 2 = 0 THEN S_organization ELSE S_individual

\* the objects position k of an already-parsed input bundle may hold
StoreObjects(ts, k) ==
    IF ts[k] = "identity"
    THEN {Obj("identity", k, ObjName(k), ClassOf(k), <<>>, <<>>, <<>>, <<>>, 0, 0)}
    ELSE IF ts[k] = "indicator" THEN {Indicator(k, ObjName(k))}
    ELSE {Opinion(k, refs, OpinionAllowed[(k % Len(OpinionAllowed)) + 1],
                  ExplanationOf(k), cr, by) :
            refs \in RefChoices(ts), cr \in 1..MaxTime, by \in CreatorChoices(ts)}

\* the bundles whose k first objects have the types ts[1..k]
RECURSIVE BundlesOfTypes(_, _)
BundlesOfTypes(ts, k) ==
    IF k = 0 THEN {<<>>}
    ELSE {Append(b, o) : b \in BundlesOfTypes(ts, k - 1), o \in StoreObjects(ts, k)}

\* faulty variant: only the type filter is applied
query_opinions_typeonly(store, id) ==
    LET Match(o) == o.type = "opinion"
    IN  SelectSeq(store, Match)

\* store.query([Filter('type', '=', 'opinion'),
\*              Filter('object_refs', 'contains', id)]): the matching objects
\* in the order the store holds them
query_opinions(store, id) ==
    LET Match(o) == o.type = "opinion" /\ \E k \in DOMAIN o.object_refs : o.object_refs[k] = id
    IN  SelectSeq(store, Match)

\* faulty variant: an opinion is placed before the ones with an equal timestamp
RECURSIVE InsertDesc_unstable(_, _)
InsertDesc_unstable(sorted, o) ==
    IF sorted = <<>> THEN <<o>>
    ELSE IF Head(sorted).created > o.created
         THEN <<Head(sorted)>> \o InsertDesc_unstable(Tail(sorted), o)
         ELSE <<o>> \o sorted

\* one insertion of a stable descending sort: o goes after every element
\* whose key is greater than or equal to its own
RECURSIVE InsertDesc(_, _)
InsertDesc(sorted, o) ==
    IF sorted = <<>> THEN <<o>>
    ELSE IF Head(sorted).created >= o.created
         THEN <<Head(sorted)>> \o InsertDesc(Tail(sorted), o)
         ELSE <<o>> \o sorted

\* opinions.sort(key=lambda opinion: opinion.created, reverse=True)
RECURSIVE SortByCreatedDesc(_)
SortByCreatedDesc(s) ==
    IF s = <<>> THEN <<>>
    ELSE InsertDesc(SortByCreatedDesc(SubSeq(s, 1, Len(s) - 1)), s[Len(s)])

\* store.creator_of(opinion): the object the created_by_ref names, or None
creator_of(store, opinion) ==
    IF opinion.created_by_ref = 0 THEN None
    ELSE IF \E k \in DOMAIN store : store[k].id = opinion.created_by_ref
    THEN store[CHOOSE k \in DOMAIN store : store[k].id = opinion.created_by_ref]
    ELSE None

\* str.splitlines() for "\n": no empty last line after a final newline
RECURSIVE splitlines(_)
splitlines(s) ==
    IF s = <<>> THEN <<>>
    ELSE IF \E k \in DOMAIN s : s[k] = "\n"
    THEN LET p == CHOOSE k \in DOMAIN s :
                    s[k] = "\n" /\ \A m \in 1..(k - 1) : s[m] # "\n"
         IN  <<SubSeq(s, 1, p - 1)>> \o splitlines(SubSeq(s, p + 1, Len(s)))
    ELSE <<s>>

\* sep.join(parts)
RECURSIVE join(_, _)
join(sep, parts) ==
    IF parts = <<>> THEN <<>>
    ELSE IF Len(parts) = 1 THEN parts[1]
    ELSE parts[1] \o sep \o join(sep, Tail(parts))

indent == <<" ", " ", " ", " ">>

\* created.strftime('%Y-%m-%d %H:%M:%S'); timestamps count half seconds, the
\* format keeps whole seconds
strftime(t) == <<"%Y-%m-%d %H:%M:%S", t \div 2>>

\* the lines buffered for one opinion (read_intel.py:98-113)
RenderBlock(opinion, creator) ==
    LET opinion_text == Title(Replace(opinion.opinion, "-", " "))
        evaluated_at == strftime(opinion.created)
        explanation ==
            indent \o join(<<"\n">>, [k \in DOMAIN splitlines(opinion.explanation) |->
                                         indent \o splitlines(opinion.explanation)[k]])
    IN  << <<"# ", creator.name, " (", Title(creator.identity_class), ")">>,
           <<"  Opinion on effectiveness: ", opinion_text>>,
           <<"  Evaluated at: ", evaluated_at>>,
           <<>>,
           explanation,
           <<>>,
           <<>> >>

\* the for loop of set_indicator over ops[1..n]: the text buffered
RECURSIVE RenderAll(_, _)
RenderAll(store, ops) ==
    IF ops = <<>> THEN <<>>
    ELSE RenderBlock(Head(ops), creator_of(store, Head(ops)))
            \o RenderAll(store, Tail(ops))

\* faulty variant: a None creator is tolerated and rendered without a name
FirstUnattributed_never(store, ops) == 0

\* index of the first opinion whose creator is None (0: there is none)
FirstUnattributed(store, ops) ==
    IF \E k \in DOMAIN ops : creator_of(store, ops[k]) = None
    THEN CHOOSE k \in DOMAIN ops :
            /\ creator_of(store, ops[k]) = None
            /\ \A m \in 1..(k - 1) : creator_of(store, ops[m]) # None
    ELSE 0

\* faulty variant: the buffer is not cleared before the blocks are added
Viewer_set_indicator_noclear(indicator) ==
    IF indicator = None
    THEN /\ UNCHANGED <<evalIndicator, bufferName, buffer, opinions>>
         /\ Reader_switchForm("INDICATOR")
    ELSE LET ops == SortByCreatedDesc(query_opinions(bundle, indicator.id))
             bad == FirstUnattributed(bundle, ops)
         IN  /\ evalIndicator' = indicator
             /\ bufferName' = <<"Opinions: ", indicator.name, " (", indicator.id, ")">>
             /\ opinions' = ops
             /\ IF bad = 0
                THEN /\ buffer' = buffer \o RenderAll(bundle, ops)
                     /\ Reader_switchForm("INDICATOR")
                ELSE /\ buffer' = buffer \o RenderAll(bundle, SubSeq(ops, 1, bad - 1))
                     /\ Raise("AttributeError")

\* IndicatorViewerForm.set_indicator followed by switchForm('INDICATOR'): the
\* attribute access on a None creator raises before that block is buffered
Viewer_set_indicator_then_switch(indicator) ==
    IF indicator = None
    THEN /\ UNCHANGED <<evalIndicator, bufferName, buffer, opinions>>
         /\ Reader_switchForm("INDICATOR")
    ELSE LET ops == SortByCreatedDesc(query_opinions(bundle, indicator.id))
             bad == FirstUnattributed(bundle, ops)
         IN  /\ evalIndicator' = indicator
             /\ bufferName' = <<"Opinions: ", indicator.name, " (", indicator.id, ")">>
             /\ opinions' = ops
             /\ IF bad = 0
                THEN /\ buffer' = RenderAll(bundle, ops)
                     /\ Reader_switchForm("INDICATOR")
                ELSE /\ buffer' = RenderAll(bundle, SubSeq(ops, 1, bad - 1))
                     /\ Raise("AttributeError")

InitRead ==
    /\ \E n \in 0..MaxStore : \E ts \in [1..n -> Types] :
            loaded \in BundlesOfTypes(ts, n)
    /\ bundle = loaded
    /\ identity = None
    /\ activeForm = "MAIN"
    /\ pc = "running"
    /\ error = ""
    /\ identityValues = <<>>
    /\ providedIndicators = SelectSeq(loaded, IsIndicator)
    /\ cursorLine = 0
    /\ evalIndicator = None
    /\ nameText = <<>>
    /\ emailText = <<>>
    /\ opinionSel = 0
    /\ explanationText = <<>>
    /\ outputGiven = FALSE
    /\ outContent = <<>>
    /\ truncates = 0
    /\ writes = 0
    /\ nextId = Len(loaded) + 1
    /\ opinions = <<>>
    /\ buffer = <<>>
    /\ bufferName = <<>>

\* IndicatorSelectionForm.on_cancel (read_intel.py)
Reader_IndicatorSelectionForm_on_cancel ==
    /\ pc = "running" /\ activeForm = "MAIN"
    /\ pc' = "cancelled" /\ activeForm' = "" /\ error' = error
    /\ UNCHANGED <<loaded, bundle, providedIndicators, cursorLine, evalIndicator>>
    /\ UNCHANGED authorVars
    /\ UNCHANGED readVars

\* IndicatorSelection.actionHighlighted (read_intel.py)
Reader_IndicatorSelection_actionHighlighted ==
    /\ pc = "running" /\ activeForm = "MAIN"
    /\ \E k \in DOMAIN providedIndicators :
        /\ cursorLine' = k
        /\ Viewer_set_indicator_then_switch(providedIndicators[k])
    /\ UNCHANGED <<loaded, bundle, providedIndicators>>
    /\ UNCHANGED authorVars

\* faulty variant: Return ends the session instead of going back
IndicatorViewerForm_on_ok_exit ==
    /\ pc = "running" /\ activeForm = "INDICATOR"
    /\ pc' = "cancelled" /\ activeForm' = "" /\ error' = error
    /\ UNCHANGED <<loaded, bundle, providedIndicators, cursorLine, evalIndicator>>
    /\ UNCHANGED authorVars
    /\ UNCHANGED readVars

\* IndicatorViewerForm.on_ok
IndicatorViewerForm_on_ok ==
    /\ pc = "running" /\ activeForm = "INDICATOR"
    /\ Reader_switchForm("MAIN")
    /\ UNCHANGED <<loaded, bundle, providedIndicators, cursorLine, evalIndicator>>
    /\ UNCHANGED authorVars
    /\ UNCHANGED readVars

NextRead ==
    \/ Reader_IndicatorSelectionForm_on_cancel
    \/ Reader_IndicatorSelection_actionHighlighted
    \/ IndicatorViewerForm_on_ok

SpecRead == InitRead /\ [][NextRead]_vars

(***************************************************************************)
(* Properties of judge_intel.py, checked under Spec.                       *)
(***************************************************************************)
\* the objects appended to bundle.objects since it was loaded
Appended == SubSeq(bundle, Len(loaded) + 1, Len(bundle))

InitialOutput == IF outputGiven THEN PriorOutput ELSE serialize(loaded)

\* C1: when a run ends in a saved opinion, the bundle is the loaded sequence
\* followed by one new Identity if and only if one was created in NewIdentity,
\* followed by exactly one Opinion; selecting an existing identity appends
\* nothing.
C1_SavedBundleShape ==
    pc = "saved" =>
        /\ SubSeq(bundle, 1, Len(loaded)) = loaded
        /\ Appended[Len(Appended)].type = "opinion"
        /\ IF identity.id \in Ids(loaded)
           THEN Len(Appended) = 1
           ELSE /\ Len(Appended) = 2
                /\ Appended[1] = identity

\* C2: object identifiers stay pairwise distinct in the in-memory bundle.
C2_IdsPairwiseDistinct ==
    \A i, j \in DOMAIN bundle : i # j => bundle[i].id # bundle[j].id

\* C3: every Opinion appended by the workflow has created_by_ref equal to the
\* id of the identity selected or created last, and that identity is in the
\* bundle.
C3_OpinionRecordsCreator ==
    \A k \in DOMAIN Appended :
        Appended[k].type = "opinion" =>
            /\ Appended[k].created_by_ref = identity.id
            /\ identity.id \in Ids(bundle)

\* C6: the output target is truncated and written at most once, only by a
\* confirmed save in Evaluate; a run that ends otherwise (cancel at any
\* screen) leaves the output target as it was, also after an identity was
\* appended in memory.
C6_WriteOnlyOnSave ==
    /\ truncates <= 1 /\ writes <= 1
    /\ (truncates > 0 \/ writes > 0 \/ outContent # InitialOutput) =>
            /\ pc = "saved" \/ (pc = "crashed" /\ error = "OSError")
            /\ Len(Appended) > 0
            /\ Appended[Len(Appended)].type = "opinion"
    /\ writes = 1 <=> pc = "saved"
    /\ pc = "cancelled" =>
            truncates = 0 /\ writes = 0 /\ outContent = InitialOutput

C6_Witness ==
    /\ pc = "cancelled"
    /\ Len(Appended) > 0
    /\ outContent = InitialOutput

\* C7: at most one Opinion is appended per run, and after the save callback
\* has returned the process has terminated: no form is active and no handler
\* can run any more.
C7_SingleShot ==
    /\ Cardinality({k \in DOMAIN Appended : Appended[k].type = "opinion"}) <= 1
    /\ writes = 1 => (pc = "saved" /\ activeForm = "" /\ ~ENABLED Next)
    /\ pc = "saved" => writes = 1

C7_Witness ==
    /\ pc = "saved"
    /\ writes = 1
    /\ Cardinality({k \in DOMAIN Appended : Appended[k].type = "opinion"}) = 1

\* C8: the appended Opinion references exactly the indicator picked in the
\* most recent SelectIndicator step, stores the selected enumerated value
\* itself (not its title-cased display form) and the explanation as typed.
C8_OpinionFields ==
    \A k \in DOMAIN Appended :
        Appended[k].type = "opinion" =>
            /\ cursorLine \in DOMAIN providedIndicators
            /\ Appended[k].object_refs = <<providedIndicators[cursorLine].id>>
            /\ opinionSel \in DOMAIN OpinionAllowed
            /\ Appended[k].opinion = OpinionAllowed[opinionSel]
            /\ Appended[k].opinion # display_value(OpinionAllowed[opinionSel])
            /\ Appended[k].explanation = explanationText

\* a save after the user went through Evaluate, cancelled, and came back
\* (two identity appends), with a hyphenated value and an untrimmed text
C8_Witness ==
    /\ pc = "saved"
    /\ Len(Appended) = 3
    /\ Appended[3].opinion = OpinionAllowed[1]
    /\ Appended[3].explanation = <<" ","o","k","\n">>
    /\ Appended[3].object_refs = <<providedIndicators[Len(providedIndicators)].id>>
    /\ Len(providedIndicators) = 2

\* C9: cancel from the SelectIndicator screen makes SelectIdentity (form
\* MAIN) the active screen and the workflow keeps running.
C9_IndicatorCancelShowsMain ==
    [][IndicatorSelectionForm_on_cancel =>
            (activeForm' = "MAIN" /\ pc' = "running")]_vars

\* C10: cancel from the NewIdentity screen makes SelectIdentity (form MAIN)
\* the active screen and constructs or appends no Identity.
C10_NewIdentityCancelShowsMain ==
    [][IdentityEntryForm_on_cancel =>
            (activeForm' = "MAIN" /\ pc' = "running"
             /\ bundle' = bundle /\ nextId' = nextId)]_vars


\* C11: cancel from the Evaluate screen makes SelectIdentity (form MAIN) the
\* active screen and leaves the in-memory bundle as it is: no Opinion is
\* appended, the identity appended earlier stays, and nothing is saved.
C11_EvaluateCancelKeepsBundle ==
    [][IndicatorEvaluationForm_on_cancel =>
            /\ activeForm' = "MAIN" /\ pc' = "running"
            /\ bundle' = bundle
            /\ identity' = identity
            /\ \E k \in DOMAIN bundle' : bundle'[k] = identity
            /\ outContent' = outContent
            /\ truncates' = truncates /\ writes' = writes]_vars

\* back at SelectIdentity after a cancel in Evaluate (the only way back once
\* an identity was appended), the identity still in the bundle, nothing saved
C11_Witness ==
    /\ pc = "running" /\ activeForm = "MAIN"
    /\ Len(Appended) > 0
    /\ identity \in Range(Appended)
    /\ \A k \in DOMAIN Appended : Appended[k].type # "opinion"
    /\ evalIndicator # None
    /\ opinionSel # 0
    /\ writes = 0 /\ truncates = 0

\* C14: after a successful save the output target holds exactly the
\* serialization of the whole in-memory bundle, object by object, and nothing
\* of what it held before, with a distinct output file and with the input
\* file overwritten in place.
C14_OutputIsSerializedBundle ==
    pc = "saved" =>
        /\ Len(outContent) = Len(bundle)
        /\ \A k \in DOMAIN bundle : outContent[k] = SerializeObj(bundle[k])
        /\ \A k \in DOMAIN outContent : outContent[k] \notin Range(PriorOutput)
        /\ truncates = 1

\* an in-place save over a non-empty input file
C14_Witness ==
    /\ pc = "saved"
    /\ ~outputGiven
    /\ Len(loaded) > 0
    /\ outContent # serialize(loaded)

\* C16: whenever the SelectIdentity screen is active, it offers the "new
\* identity" choice and exactly the identity objects currently in the bundle,
\* an identity created earlier in the same run included.
C16_OfferedIdentitiesCurrent ==
    (pc = "running" /\ activeForm = "MAIN") =>
        /\ identityValues[1] = None
        /\ Range(Tail(identityValues)) =
              {o \in Range(bundle) : o.type = "identity"}

\* C18: a failure of the save callback on confirm in Evaluate is fatal: the
\* exception ends the run, the exit step is not reached, nothing is retried,
\* and the Opinion appended just before stays in the in-memory bundle.
C18_SaveFailureKeepsAppend ==
    error = "OSError" =>
        /\ pc = "crashed" /\ activeForm = ""
        /\ ~ENABLED Next
        /\ writes = 0
        /\ Len(Appended) > 0
        /\ Appended[Len(Appended)].type = "opinion"
        /\ Appended[Len(Appended)].opinion = OpinionAllowed[opinionSel]

\* the write failed after the truncation
C18_Witness ==
    /\ error = "OSError"
    /\ truncates = 1
    /\ outContent = <<>>
    /\ Appended[Len(Appended)].type = "opinion"

\* C19: Save confirmed in Evaluate with no opinion value selected fails
\* before any Opinion is constructed: the bundle holds no new Opinion and the
\* output target is neither truncated nor written.
C19_NoValueFailsBeforeAppend ==
    error = "TypeError" =>
        /\ pc = "crashed"
        /\ opinionSel = 0
        /\ \A k \in DOMAIN Appended : Appended[k].type # "opinion"
        /\ nextId = Len(loaded) + 1 +
              Cardinality({k \in DOMAIN Appended : Appended[k].id \notin Ids(loaded)})
        /\ truncates = 0 /\ writes = 0
        /\ outContent = InitialOutput

\* the failure, after an identity had been selected and an explanation typed
C19_Witness ==
    /\ error = "TypeError"
    /\ Len(Appended) > 0
    /\ evalIndicator # None

(***************************************************************************)
(* Properties of read_intel.py, checked under SpecRead.                    *)
(***************************************************************************)
\* lines buffered per opinion (the list passed to self.buffer.buffer)
BlockLines == 7

\* the ViewOpinions screen is on display
ViewShown == pc = "running" /\ activeForm = "INDICATOR"

\* position of an object in the bundle
Pos(o) == CHOOSE k \in DOMAIN bundle : bundle[k] = o

\* C4: the opinions queried and rendered for the selected indicator are
\* exactly the objects of the bundle of type opinion whose object_refs
\* contains the indicator's id: each once, none else, and when the view is
\* shown there is one block per such opinion.
C4_ExactlyReferencingOpinions ==
    evalIndicator # None =>
        /\ Range(opinions) =
              {o \in Range(bundle) :
                  o.type = "opinion" /\ evalIndicator.id \in Range(o.object_refs)}
        /\ \A i, j \in DOMAIN opinions : i # j => opinions[i] # opinions[j]
        /\ ViewShown =>
              /\ Len(buffer) = BlockLines * Len(opinions)
              /\ \A k \in DOMAIN opinions :
                    buffer[BlockLines * (k - 1) + 2] =
                        <<"  Opinion on effectiveness: ",
                          display_value(opinions[k].opinion)>>

\* a view showing an opinion that references two indicators, while the
\* bundle holds an opinion on the other indicator only
C4_Witness ==
    /\ ViewShown
    /\ \E k \in DOMAIN opinions : Len(opinions[k].object_refs) = 2
    /\ \E k \in DOMAIN bundle :
          bundle[k].type = "opinion" /\ bundle[k] \notin Range(opinions)

\* C5: the opinions are in non-increasing order of creation timestamp, two
\* opinions with equal timestamps keep the order the query returned them in
\* (the bundle's order), and the blocks are buffered in that order.
C5_SortedDescStable ==
    evalIndicator # None =>
        /\ \A i, j \in DOMAIN opinions :
              i < j => /\ opinions[i].created >= opinions[j].created
                       /\ opinions[i].created = opinions[j].created
                              => Pos(opinions[i]) < Pos(opinions[j])
        /\ ViewShown =>
              \A k \in DOMAIN opinions :
                  buffer[BlockLines * (k - 1) + 3] =
                      <<"  Evaluated at: ", strftime(opinions[k].created)>>

\* a view of three opinions, two with equal timestamps and one older or newer
C5_Witness ==
    /\ ViewShown
    /\ Len(opinions) = 3
    /\ \E i, j \in DOMAIN opinions : i < j /\ opinions[i].created = opinions[j].created
    /\ \E i, j \in DOMAIN opinions : i < j /\ opinions[i].created > opinions[j].created

\* C12: Return from ViewOpinions always makes SelectIndicator (form MAIN) the
\* active screen, from where an indicator can be selected again; the process
\* exits only by cancel at SelectIndicator (any other end of the run is the
\* exception raised inside set_indicator); the bundle and the offered
\* indicators never change.
C12_ReviewCycle ==
    [][/\ IndicatorViewerForm_on_ok => (activeForm' = "MAIN" /\ pc' = "running")
       /\ ViewShown => IndicatorViewerForm_on_ok
       /\ (activeForm = "MAIN" /\ evalIndicator # None) =>
              (Reader_IndicatorSelection_actionHighlighted
                  \/ Reader_IndicatorSelectionForm_on_cancel)
       /\ pc' = "cancelled" => (activeForm = "MAIN" /\ pc = "running")
       /\ pc' = "crashed" => (activeForm = "MAIN" /\ error' = "AttributeError")
       /\ bundle' = bundle /\ bundle = loaded
       /\ providedIndicators' = providedIndicators
       /\ providedIndicators = SelectSeq(bundle, IsIndicator)]_vars

\* back at SelectIndicator after a view, with a second indicator to look at
C12_Witness ==
    /\ pc = "running" /\ activeForm = "MAIN"
    /\ evalIndicator # None
    /\ buffer # <<>>
    /\ Len(providedIndicators) >= 2
    /\ cursorLine = 2

\* C13: in each rendered block every line of the explanation, the first one
\* included, is emitted with exactly one copy of the indent in front, and the
\* block ends with a blank-line separator.
C13_ExplanationIndentedOnce ==
    ViewShown =>
        \A k \in DOMAIN opinions :
            LET text == buffer[BlockLines * (k - 1) + 5]
                lines == splitlines(opinions[k].explanation)
            IN  /\ splitlines(text) = [m \in DOMAIN lines |-> indent \o lines[m]]
                /\ buffer[BlockLines * (k - 1) + 6] = <<>>
                /\ buffer[BlockLines * k] = <<>>

\* C15: the report on display is exactly the blocks, in index order, of the
\* opinions on the indicator selected last: nothing of an earlier selection
\* remains, the text is a function of the bundle and that indicator alone
\* (selecting it again gives the same text), and an indicator without
\* opinions gives an empty report and no error.
C15_ReportOfLastSelection ==
    evalIndicator # None =>
        LET matching == {k \in DOMAIN bundle :
                            /\ bundle[k].type = "opinion"
                            /\ evalIndicator.id \in Range(bundle[k].object_refs)}
        IN  /\ cursorLine \in DOMAIN providedIndicators
            /\ evalIndicator = providedIndicators[cursorLine]
            /\ pc # "crashed" =>
                  /\ Len(buffer) = BlockLines * Cardinality(matching)
                  /\ buffer = RenderAll(bundle,
                        SortByCreatedDesc(query_opinions(bundle, evalIndicator.id)))
            /\ matching = {} => (buffer = <<>> /\ pc # "crashed")

\* the view of an indicator without opinions, in a bundle where another
\* indicator has one
C15_Witness ==
    /\ ViewShown
    /\ buffer = <<>>
    /\ \E k \in DOMAIN bundle : bundle[k].type = "opinion"
    /\ \E k \in DOMAIN providedIndicators :
          query_opinions(bundle, providedIndicators[k].id) # <<>>

\* C17: if an opinion referencing the selected indicator has no resolvable
\* creator (no created_by_ref, or one naming no identity of the bundle), the
\* selection ends in a fatal error: ViewOpinions is not shown, and no block
\* is buffered for that opinion; otherwise the selection does not fail.
C17_UnresolvedCreatorIsFatal ==
    evalIndicator # None =>
        LET Unresolved(o) ==
                \/ o.created_by_ref = 0
                \/ ~\E k \in DOMAIN bundle :
                        bundle[k].type = "identity" /\ bundle[k].id = o.created_by_ref
            bad == {k \in DOMAIN opinions : Unresolved(opinions[k])}
        IN  IF bad # {}
            THEN /\ pc = "crashed" /\ error = "AttributeError"
                 /\ activeForm # "INDICATOR"
                 /\ \E first \in bad :
                        /\ \A k \in bad : first <= k
                        /\ Len(buffer) = BlockLines * (first - 1)
            ELSE pc # "crashed"

\* the fatal error after one attributed block was buffered, caused by a
\* created_by_ref naming an identity that is not in the bundle
C17_Witness ==
    /\ pc = "crashed"
    /\ error = "AttributeError"
    /\ Len(buffer) = BlockLines
    /\ Len(opinions) >= 2
    /\ opinions[2].created_by_ref # 0

====
